---- MODULE Spec2Model ----
\* The canvas drawing module of the Spanish Pronunciation Coach (src/app.js,
\* initCanvas and the closures it returns), with the host it runs against: the
\* canvas element, its 2D context, the layout size and the device pixel ratio.
EXTENDS Integers, Sequences, FiniteSets, TLC

\* ------------------------------------------------------------------ numbers
\* JavaScript numbers that are not whole (the device pixel ratio, the products
\* width * 0.35, canvas.width / dpr) are kept as exact fractions n/d with d > 0.
RECURSIVE Gcd(_, _)
Gcd(a, b) == IF b = 0 THEN a ELSE Gcd(b, a % b)

Abs(a) == IF a < 0 THEN 0 - a ELSE a

\* the fraction n/d in lowest terms (d > 0)
R(n, d) ==
  LET g == Gcd(Abs(n), d)
  IN [n |-> n \div g, d |-> d \div g]

I(i) == [n |-> i, d |-> 1]

\* products and sums cancel common factors first, so that the numbers stay
\* as small as the result
RMul(x, y) ==
  LET g1 == Gcd(Abs(x.n), y.d)
      g2 == Gcd(Abs(y.n), x.d)
  IN R((x.n \div g1) * (y.n \div g2), (x.d \div g2) * (y.d \div g1))

RAdd(x, y) ==
  LET g == Gcd(x.d, y.d)
  IN R(x.n * (y.d \div g) + y.n * (x.d \div g), (x.d \div g) * y.d)

RNeg(x) == [n |-> 0 - x.n, d |-> x.d]

RSub(x, y) == RAdd(x, RNeg(y))

\* x / y for y > 0
RDiv(x, y) == RMul(x, [n |-> y.d, d |-> y.n])

\* a decimal literal of the source with two places: 0.35 is Dec(35)
Dec(hundredths) == R(hundredths, 100)

Min(a, b) == IF a <= b THEN a ELSE b

Max(a, b) == IF a >= b THEN a ELSE b

\* Math.round with the fraction cut off instead (what Math.floor would give)
MathRoundDown(x) == x.n \div x.d

\* Math.round of a fraction: the nearest integer, a tie going up
MathRound(x) == (2 * x.n + x.d) \div (2 * x.d)

\* Math.floor with the fraction rounded up instead (what Math.ceil would give)
MathCeil(x) == 0 - ((0 - x.n) \div x.d)

\* Math.floor of a fraction
MathFloor(x) == x.n \div x.d

\* ------------------------------------------------------------- host values
\* window.devicePixelRatio: a number, or undefined where the host has none.
DprUndefined == [def |-> FALSE, n |-> 0, d |-> 1]

DprNumber(n, d) == [def |-> TRUE, n |-> n, d |-> d]

\* absent, zero, 1.25, 1.5, 2
DprValues ==
  { DprUndefined, DprNumber(0, 1), DprNumber(5, 4), DprNumber(3, 2),
    DprNumber(2, 1) }

\* canvas.clientWidth, canvas.clientHeight: whole CSS pixels given by layout
Layouts == { <<400, 300>>, <<173, 600>>, <<3, 5>> }

\* what initApp may hand to initCanvas: document.getElementById gives null
\* when the element is absent; a caller may pass nothing (undefined), an
\* element that is no canvas (no getContext method), a canvas whose
\* getContext('2d') gives null (it is bound to another context type), or a
\* canvas that yields a 2D context.
Surfaces == { "null", "undefined", "noGetContext", "contextNull", "canvas" }

\* the argument of writeText: null, undefined (no argument) or a string
JsNull == [t |-> "null", s |-> ""]

JsUndefined == [t |-> "undefined", s |-> ""]

JsString(s) == [t |-> "string", s |-> s]

Texts == { "", "hola", " hi " }

WordArgs == { JsNull, JsUndefined } \cup { JsString(s) : s \in Texts }

\* the longest run of consecutive nextImage calls that is followed
MaxRun == 4

\* ----------------------------------------------------------------- errors
NoError == "none"

CanvasNotFound == "Error: Canvas element not found"

TypeError == "TypeError"

\* video.duration while the length of the video is not known
NaN == -1

\* a name that resolves in no enclosing scope
ReferenceError == "ReferenceError"

\* resultDiv.textContent = '': no message
NoResult == [kind |-> "none", user |-> <<>>, correct |-> <<>>]

\* ------------------------------------------------------- the 2D context
\* The drawing state of a 2D context: the transform (a, b, c, d, e, f) set by
\* setTransform, the translate/rotate calls applied on top of it, and the line
\* styles. A context starts, and is reset to, the default state.
DefaultCtxState ==
  [ a |-> I(1), b |-> I(0), c |-> I(0), d |-> I(1), e |-> I(0), f |-> I(0),
    local |-> <<>>, lineCap |-> "butt", lineJoin |-> "miter" ]

DefaultCtx == [cur |-> DefaultCtxState, stack |-> <<>>]

\* a call on the host: its name, its numeric arguments, its string argument
Cmd(op, args, text) == [op |-> op, args |-> args, text |-> text]

\* the effect of one call on the context; assigning canvas.width or
\* canvas.height resets the context to its default state and empties the stack
Apply(c, cmd) ==
  CASE cmd.op \in {"canvas.width=", "canvas.height="} -> DefaultCtx
    [] cmd.op = "setTransform" ->
         [c EXCEPT !.cur.a = cmd.args[1], !.cur.b = cmd.args[2],
                   !.cur.c = cmd.args[3], !.cur.d = cmd.args[4],
                   !.cur.e = cmd.args[5], !.cur.f = cmd.args[6],
                   !.cur.local = <<>>]
    [] cmd.op \in {"translate", "rotate"} ->
         [c EXCEPT !.cur.local = Append(@, cmd.op)]
    [] cmd.op = "save" -> [c EXCEPT !.stack = Append(@, c.cur)]
    [] cmd.op = "restore" ->
         IF c.stack = <<>> THEN c
         ELSE [cur |-> c.stack[Len(c.stack)],
               stack |-> SubSeq(c.stack, 1, Len(c.stack) - 1)]
    [] cmd.op = "lineCap=" -> [c EXCEPT !.cur.lineCap = cmd.text]
    [] cmd.op = "lineJoin=" -> [c EXCEPT !.cur.lineJoin = cmd.text]
    [] OTHER -> c

\* the calls the host refuses with an exception: a negative radius of arc,
\* ellipse or createRadialGradient, a colour stop outside 0 .. 1, a gradient
\* with an argument that is not finite (a fraction over zero)
HostThrows(cmd) ==
  CASE cmd.op = "arc" -> cmd.args[3].n < 0
    [] cmd.op = "ellipse" -> cmd.args[3].n < 0 \/ cmd.args[4].n < 0
    [] cmd.op = "createRadialGradient" ->
         \/ cmd.args[3].n < 0 \/ cmd.args[6].n < 0
         \/ \E k \in 1 .. 6 : cmd.args[k].d = 0
    [] cmd.op = "createLinearGradient" -> \E k \in 1 .. 4 : cmd.args[k].d = 0
    [] cmd.op = "addColorStop" ->
         cmd.args[1].n < 0 \/ cmd.args[1].n > cmd.args[1].d
    [] OTHER -> FALSE

\* the context after calls lo .. hi of a sequence of calls, in order (the
\* range is halved so that the evaluation stays shallow)
RECURSIVE RunRange(_, _, _, _)
RunRange(c, cmds, lo, hi) ==
  IF lo > hi THEN c
  ELSE IF lo = hi THEN Apply(c, cmds[lo])
  ELSE LET mid == (lo + hi) \div 2
       IN RunRange(RunRange(c, cmds, lo, mid), cmds, mid + 1, hi)

\* the calls that read or write nothing of the drawing state are skipped
AffectsCtx(cmd) ==
  cmd.op \in { "canvas.width=", "canvas.height=", "setTransform", "translate",
               "rotate", "save", "restore", "lineCap=", "lineJoin=" }

Run(c, cmds) ==
  LET rel == SelectSeq(cmds, AffectsCtx)
  IN RunRange(c, rel, 1, Len(rel))

\* --------------------------------------------------------------- drawing
\* Every drawing routine is the sequence of context calls it makes, in the
\* order of the source. Colours and font families are string arguments.
Set(prop, text) == Cmd(prop \o "=", <<>>, text)

Call(op, args) == Cmd(op, args, "")

\* roundRect with the bottom-right curve bent about the end of the right edge
\* in place of the corner
roundRectBentCorner(x, y, width, height, radius) ==
  << Call("beginPath", <<>>),
     Call("moveTo", <<RAdd(x, radius), y>>),
     Call("lineTo", <<RSub(RAdd(x, width), radius), y>>),
     Call("quadraticCurveTo",
          <<RAdd(x, width), y, RAdd(x, width), RAdd(y, radius)>>),
     Call("lineTo", <<RAdd(x, width), RSub(RAdd(y, height), radius)>>),
     Call("quadraticCurveTo",
          <<RAdd(x, width), RSub(RAdd(y, height), radius),
            RSub(RAdd(x, width), radius), RAdd(y, height)>>),
     Call("lineTo", <<RAdd(x, radius), RAdd(y, height)>>),
     Call("quadraticCurveTo",
          <<x, RAdd(y, height), x, RSub(RAdd(y, height), radius)>>),
     Call("lineTo", <<x, RAdd(y, radius)>>),
     Call("quadraticCurveTo", <<x, y, RAdd(x, radius), y>>),
     Call("closePath", <<>>) >>

\* roundRect(ctx, x, y, width, height, radius): all arguments are fractions
roundRect(x, y, width, height, radius) ==
  << Call("beginPath", <<>>),
     Call("moveTo", <<RAdd(x, radius), y>>),
     Call("lineTo", <<RSub(RAdd(x, width), radius), y>>),
     Call("quadraticCurveTo",
          <<RAdd(x, width), y, RAdd(x, width), RAdd(y, radius)>>),
     Call("lineTo", <<RAdd(x, width), RSub(RAdd(y, height), radius)>>),
     Call("quadraticCurveTo",
          <<RAdd(x, width), RAdd(y, height),
            RSub(RAdd(x, width), radius), RAdd(y, height)>>),
     Call("lineTo", <<RAdd(x, radius), RAdd(y, height)>>),
     Call("quadraticCurveTo",
          <<x, RAdd(y, height), x, RSub(RAdd(y, height), radius)>>),
     Call("lineTo", <<x, RAdd(y, radius)>>),
     Call("quadraticCurveTo", <<x, y, RAdd(x, radius), y>>),
     Call("closePath", <<>>) >>

\* drawApple with the radius cut by a margin of two pixels: on a layout
\* smaller than 12 pixels the radius is negative
drawAppleWithMargin(w, h) ==
  LET cx == RMul(I(w), Dec(35))
      cy == RMul(I(h), Dec(45))
      r  == RSub(RMul(I(Min(w, h)), Dec(18)), I(2))
  IN << Call("beginPath", <<>>),
        Set("fillStyle", "#ff6b6b"),
        Call("arc", <<cx, cy, r>>),
        Call("fill", <<>>),
        Call("beginPath", <<>>),
        Set("fillStyle", "#58d68d"),
        Call("ellipse",
             <<RAdd(cx, RMul(r, Dec(55))), RSub(cy, RMul(r, Dec(75))),
               RMul(r, Dec(32)), RMul(r, Dec(18))>>),
        Call("fill", <<>>),
        Call("beginPath", <<>>),
        Set("strokeStyle", "#6b4c2b"),
        Cmd("lineWidth=", <<I(4)>>, ""),
        Call("moveTo", <<cx, RSub(cy, RMul(r, Dec(80)))>>),
        Call("lineTo",
             <<RAdd(cx, RMul(r, Dec(10))), RSub(cy, RMul(r, Dec(145)))>>),
        Call("stroke", <<>>) >>

\* drawApple(w, h). The angles of arc and ellipse (0 to 2 pi, tilt -0.6) are
\* constants of the source and are not carried in the arguments.
drawApple(w, h) ==
  LET cx == RMul(I(w), Dec(35))
      cy == RMul(I(h), Dec(45))
      r  == RMul(I(Min(w, h)), Dec(18))
  IN << Call("beginPath", <<>>),
        Set("fillStyle", "#ff6b6b"),
        Call("arc", <<cx, cy, r>>),
        Call("fill", <<>>),
        Call("beginPath", <<>>),
        Set("fillStyle", "#58d68d"),
        Call("ellipse",
             <<RAdd(cx, RMul(r, Dec(55))), RSub(cy, RMul(r, Dec(75))),
               RMul(r, Dec(32)), RMul(r, Dec(18))>>),
        Call("fill", <<>>),
        Call("beginPath", <<>>),
        Set("strokeStyle", "#6b4c2b"),
        Cmd("lineWidth=", <<I(4)>>, ""),
        Call("moveTo", <<cx, RSub(cy, RMul(r, Dec(80)))>>),
        Call("lineTo",
             <<RAdd(cx, RMul(r, Dec(10))), RSub(cy, RMul(r, Dec(145)))>>),
        Call("stroke", <<>>) >>

\* drawBanana without its closing ctx.restore()
drawBananaNoRestore(w, h) ==
  LET cx == RMul(I(w), Dec(45))
      cy == RMul(I(h), Dec(50))
      r  == RMul(I(Min(w, h)), Dec(22))
      L  == RMul(r, Dec(210))
      H  == RMul(r, Dec(80))
  IN << Call("save", <<>>),
        Call("translate", <<cx, cy>>),
        Call("rotate", <<RNeg(Dec(30))>>),
        Call("beginPath", <<>>),
        Call("moveTo", <<RNeg(RMul(L, Dec(50))), RNeg(RMul(H, Dec(35)))>>),
        Call("quadraticCurveTo",
             <<RNeg(RMul(L, Dec(15))), RNeg(RMul(H, Dec(100))),
               RMul(L, Dec(45)), RNeg(RMul(H, Dec(30)))>>),
        Call("quadraticCurveTo",
             <<RMul(L, Dec(20)), RMul(H, Dec(95)),
               RNeg(RMul(L, Dec(55))), RMul(H, Dec(40))>>),
        Call("closePath", <<>>),
        Call("createLinearGradient",
             <<RNeg(RMul(L, Dec(50))), I(0), RMul(L, Dec(50)), I(0)>>),
        Cmd("addColorStop", <<I(0)>>, "#ffd23f"),
        Cmd("addColorStop", <<Dec(60)>>, "#ffcf4d"),
        Cmd("addColorStop", <<I(1)>>, "#ffd23f"),
        Set("fillStyle", "gradient"),
        Call("fill", <<>>),
        Call("beginPath", <<>>),
        Call("moveTo", <<RNeg(RMul(L, Dec(25))), RNeg(RMul(H, Dec(15)))>>),
        Call("quadraticCurveTo",
             <<I(0), RNeg(RMul(H, Dec(55))),
               RMul(L, Dec(28)), RNeg(RMul(H, Dec(11)))>>),
        Set("strokeStyle", "rgba(255,255,255,0.55)"),
        Cmd("lineWidth=", <<I(3)>>, ""),
        Call("stroke", <<>>),
        Call("beginPath", <<>>),
        Set("fillStyle", "#6b4c2b") >>
     \o roundRect(RMul(L, Dec(35)), RNeg(RMul(H, Dec(42))),
                  RMul(L, Dec(8)), RMul(H, Dec(16)), I(3))
     \o << Call("fill", <<>>) >>

\* drawBanana(w, h). translate and rotate act on the saved frame; the colour
\* stops of the gradient are calls on the gradient object.
drawBanana(w, h) ==
  LET cx == RMul(I(w), Dec(45))
      cy == RMul(I(h), Dec(50))
      r  == RMul(I(Min(w, h)), Dec(22))
      L  == RMul(r, Dec(210))
      H  == RMul(r, Dec(80))
  IN << Call("save", <<>>),
        Call("translate", <<cx, cy>>),
        Call("rotate", <<RNeg(Dec(30))>>),
        Call("beginPath", <<>>),
        Call("moveTo", <<RNeg(RMul(L, Dec(50))), RNeg(RMul(H, Dec(35)))>>),
        Call("quadraticCurveTo",
             <<RNeg(RMul(L, Dec(15))), RNeg(RMul(H, Dec(100))),
               RMul(L, Dec(45)), RNeg(RMul(H, Dec(30)))>>),
        Call("quadraticCurveTo",
             <<RMul(L, Dec(20)), RMul(H, Dec(95)),
               RNeg(RMul(L, Dec(55))), RMul(H, Dec(40))>>),
        Call("closePath", <<>>),
        Call("createLinearGradient",
             <<RNeg(RMul(L, Dec(50))), I(0), RMul(L, Dec(50)), I(0)>>),
        Cmd("addColorStop", <<I(0)>>, "#ffd23f"),
        Cmd("addColorStop", <<Dec(60)>>, "#ffcf4d"),
        Cmd("addColorStop", <<I(1)>>, "#ffd23f"),
        Set("fillStyle", "gradient"),
        Call("fill", <<>>),
        Call("beginPath", <<>>),
        Call("moveTo", <<RNeg(RMul(L, Dec(25))), RNeg(RMul(H, Dec(15)))>>),
        Call("quadraticCurveTo",
             <<I(0), RNeg(RMul(H, Dec(55))),
               RMul(L, Dec(28)), RNeg(RMul(H, Dec(11)))>>),
        Set("strokeStyle", "rgba(255,255,255,0.55)"),
        Cmd("lineWidth=", <<I(3)>>, ""),
        Call("stroke", <<>>),
        Call("beginPath", <<>>),
        Set("fillStyle", "#6b4c2b") >>
     \o roundRect(RMul(L, Dec(35)), RNeg(RMul(H, Dec(42))),
                  RMul(L, Dec(8)), RMul(H, Dec(16)), I(3))
     \o << Call("fill", <<>>),
           Call("restore", <<>>) >>

\* The ten texture lines of the orange: line i runs from 10% to 90% of the
\* radius at the angle i/10 of a turn. cos and sin are not fractions: each
\* end point is carried as (i, share of the radius).
RECURSIVE orangeSpokes(_)
orangeSpokes(i) ==
  IF i >= 10 THEN <<>>
  ELSE << Call("moveTo", <<I(i), Dec(10)>>),
          Call("lineTo", <<I(i), Dec(90)>>) >> \o orangeSpokes(i + 1)

\* drawOrange(w, h)
drawOrange(w, h) ==
  LET cx == RMul(I(w), Dec(32))
      cy == RMul(I(h), Dec(50))
      r  == RMul(I(Min(w, h)), Dec(17))
  IN << Call("save", <<>>),
        Call("createRadialGradient",
             <<RSub(cx, RMul(r, Dec(20))), RSub(cy, RMul(r, Dec(20))),
               RMul(r, Dec(5)), cx, cy, r>>),
        Cmd("addColorStop", <<I(0)>>, "#ffd07a"),
        Cmd("addColorStop", <<Dec(60)>>, "#ff9f1c"),
        Cmd("addColorStop", <<I(1)>>, "#f68b1f"),
        Call("beginPath", <<>>),
        Set("fillStyle", "gradient"),
        Call("arc", <<cx, cy, r>>),
        Call("fill", <<>>),
        Call("beginPath", <<>>),
        Set("fillStyle", "#f2a43d"),
        Call("arc",
             <<RAdd(cx, RMul(r, Dec(8))), RSub(cy, RMul(r, Dec(5))),
               RMul(r, Dec(7))>>),
        Call("fill", <<>>),
        Call("beginPath", <<>>),
        Set("strokeStyle", "rgba(255,255,255,0.06)"),
        Cmd("lineWidth=", <<I(2)>>, "") >>
     \o orangeSpokes(0)
     \o << Call("stroke", <<>>),
           Call("beginPath", <<>>),
           Call("save", <<>>),
           Call("translate",
                <<RAdd(cx, RMul(r, Dec(62))), RSub(cy, RMul(r, Dec(68)))>>),
           Call("rotate", <<RNeg(Dec(60))>>),
           Set("fillStyle", "#5ec26b"),
           Call("moveTo", <<I(0), I(0)>>),
           Call("quadraticCurveTo",
                <<RMul(r, Dec(20)), RNeg(RMul(r, Dec(45))),
                  RMul(r, Dec(70)), RNeg(RMul(r, Dec(50)))>>),
           Call("quadraticCurveTo",
                <<RMul(r, RNeg(Dec(15))), RNeg(RMul(r, Dec(18))), I(0), I(0)>>),
           Call("fill", <<>>),
           Call("restore", <<>>),
           Call("restore", <<>>) >>

\* the fruit for an index: 0 apple, 1 banana, anything else orange
drawFruit(image, w, h) ==
  IF image = 0 THEN drawApple(w, h)
  ELSE IF image = 1 THEN drawBanana(w, h)
  ELSE drawOrange(w, h)

\* drawBackground(): reads the layout size, draws the panel and the fruit
drawBackground(image, w, h) ==
  << Call("save", <<>>),
     Call("createLinearGradient", <<I(0), I(0), I(0), I(h)>>),
     Cmd("addColorStop", <<I(0)>>, "#ffd"),
     Cmd("addColorStop", <<I(1)>>, "#fff6cc"),
     Set("fillStyle", "gradient") >>
  \o roundRect(I(0), I(0), I(w), I(h), I(12))
  \o << Call("fill", <<>>) >>
  \o drawFruit(image, w, h)
  \o << Call("restore", <<>>) >>

\* drawHintText(text): reads the layout size
drawHintText(text, w, h) ==
  LET base == Max(28, MathFloor(R(Min(w, h), 6)))
  IN << Call("save", <<>>),
        Set("fillStyle", "#222"),
        Cmd("font=", <<I(base)>>, "bold px system-ui, Arial"),
        Set("textAlign", "center"),
        Set("textBaseline", "middle"),
        Cmd("fillText", <<RMul(I(w), Dec(70)), RMul(I(h), Dec(55))>>, text),
        Call("restore", <<>>) >>

\* The drawing routines are functions of the scene and the layout size alone:
\* their calls for the sizes and texts of this model, computed once.
BackgroundCalls ==
  [ image \in 0 .. 2, l \in Layouts |-> drawBackground(image, l[1], l[2]) ]

HintTextCalls ==
  [ text \in Texts, l \in Layouts |-> drawHintText(text, l[1], l[2]) ]

backgroundOf(image, w, h) ==
  IF image \in 0 .. 2 /\ <<w, h>> \in Layouts
  THEN BackgroundCalls[image, <<w, h>>]
  ELSE drawBackground(image, w, h)

hintTextOf(text, w, h) ==
  IF text \in Texts /\ <<w, h>> \in Layouts
  THEN HintTextCalls[text, <<w, h>>]
  ELSE drawHintText(text, w, h)

\* redraw clearing the layout size (canvas.clientWidth by canvas.clientHeight)
\* in place of the buffer size over dpr
redrawClearLayout(image, text, w, h, cw, ch, scale) ==
  << Call("clearRect", <<I(0), I(0), I(w), I(h)>>) >>
  \o backgroundOf(image, w, h)
  \o (IF text # "" THEN hintTextOf(text, w, h) ELSE <<>>)

\* redraw with the text drawn before the background, which then covers it
redrawTextFirst(image, text, w, h, cw, ch, scale) ==
  << Call("clearRect",
          <<I(0), I(0), RDiv(I(cw), scale), RDiv(I(ch), scale)>>) >>
  \o (IF text # "" THEN hintTextOf(text, w, h) ELSE <<>>)
  \o backgroundOf(image, w, h)

\* redraw(): clear, background with fruit, then the text if there is any
redraw(image, text, w, h, cw, ch, scale) ==
  << Call("clearRect",
          <<I(0), I(0), RDiv(I(cw), scale), RDiv(I(ch), scale)>>) >>
  \o backgroundOf(image, w, h)
  \o (IF text # "" THEN hintTextOf(text, w, h) ELSE <<>>)

\* ------------------------------------------------------------------ state
VARIABLES
  surface,           \* host: the value initApp hands to initCanvas
  clientWidth,       \* host: canvas.clientWidth
  clientHeight,      \* host: canvas.clientHeight
  devicePixelRatio,  \* host: window.devicePixelRatio
  canvas,            \* canvas.width, canvas.height, canvas.style.width/height
  ctx,               \* the 2D context: drawing state and save stack
  dpr,               \* closure variable dpr
  hintText,          \* closure variable hintText
  currentImage,      \* closure variable currentImage
  phase,             \* "loading", then "ready" or "failed"
  app,               \* the methods initCanvas returned
  error,             \* what initCanvas threw
  lastOp,            \* history: the last call that ran
  arg,               \* history: the argument of that call, if it was writeText
  made,              \* history: what that call read and passed on to the
                     \*   host calls it made (the calls are CallsOf(made))
  before,            \* history: the scene when that call began
  run,               \* history: the scene before and after each nextImage of
                     \*   the current run of consecutive nextImage calls
  synced,            \* history: the host changed neither the layout size nor
                     \*   the device pixel ratio since the last configuration
  again,             \* history: the last call was a resize() that followed a
                     \*   configuration with no host change in between
  textInput,         \* page: the value of the text field, as its characters
  loadLog,           \* page load: the initializers the DOMContentLoaded
                     \*   handler has called, in order
  listeners,         \* page load: the parts whose handlers are registered
  currentVideoIndex, \* global currentVideoIndex
  nextClicks,        \* history: the clicks on the Next button of the videos
  videoSrc,          \* video.src, the source video.load() loaded
  paused,            \* video.paused
  playLabel,         \* playBtn.textContent
  mediaEvents,       \* the media events queued on the video, oldest first
  playable,          \* host: the loaded source can (still) be played
  answerInput,       \* answerInput.value, as its characters
  resultDiv,         \* resultDiv: className and what textContent says
  currentTime,       \* video.currentTime, in whole seconds
  duration,          \* video.duration, in whole seconds, or NaN
  timeDisplay,       \* timeDisplay.textContent, as its characters
  recognition,       \* initSpeech: the recognition object, or null
  session,           \* host: how far the recognition session has come
  cleared,           \* history: a Next-word click fell into the session
  currentWordIndex,  \* global currentWordIndex
  wordDisplay,       \* wordDisplay.textContent, as its characters
  status,            \* speech status: className and textContent
  result,            \* speech result: className and what textContent says
  utterance,         \* the text last handed to synth.speak
  analysis           \* the Analyze button: its clicks, the answers handed to
                     \*   handleVideoAnalysis, what the last click threw

vars ==
  << surface, clientWidth, clientHeight, devicePixelRatio, canvas, ctx, dpr,
     hintText, currentImage, phase, app, error, lastOp, arg, made, before,
     run, synced, again, textInput, loadLog, listeners, currentVideoIndex,
     nextClicks, videoSrc, paused, playLabel, mediaEvents, playable,
     answerInput, resultDiv, currentTime, duration, timeDisplay,
     recognition, session, cleared, currentWordIndex,
     wordDisplay, status, result, utterance, analysis >>

host == << surface, clientWidth, clientHeight, devicePixelRatio >>

\* the elements of the page that initApp wires to the module
page == << textInput >>

\* what the DOMContentLoaded handler leaves behind
loadVars == << loadLog, listeners >>

\* the video player: the global index, the video element, the controls
videoVars ==
  << currentVideoIndex, nextClicks, videoSrc, paused, playLabel, mediaEvents,
     playable, answerInput, resultDiv, currentTime, duration, timeDisplay >>

\* the position of the video and its display
timeVars == << currentTime, duration, timeDisplay >>

\* the speech part: the recognition object and its session, the global
\* index, the elements
speechVars ==
  << recognition, session, cleared, currentWordIndex, wordDisplay, status,
     result, utterance >>

\* everything of the page outside the canvas part
media == << loadVars, videoVars, speechVars, analysis >>

\* the closure variables before initCanvas has declared them
Undeclared == "<undeclared>"

Scene == [image |-> currentImage, text |-> hintText]

\* ------------------------------------------------------- the code's steps
\* the guard written as canvas === null: undefined passes it
CanvasMissingNullOnly(s) == s = "null"

\* if (!canvas): null and undefined are the falsy surfaces

CanvasMissing(s) == s \in {"null", "undefined"}

\* window.devicePixelRatio || 1: undefined and 0 are falsy
DprOr1(v) == IF v.def /\ v.n # 0 THEN [n |-> v.n, d |-> v.d] ELSE I(1)

\* the step of the index with another wrap: at 2, at 4, or stopping at the
\* last fruit
NextIndexMod2(i) == (i + 1) % 2

NextIndexMod4(i) == (i + 1) % 4

NextIndexSaturating(i) == IF i >= 2 THEN 2 ELSE i + 1

\* (currentImage + 1) % 3
NextIndex(i) == (i + 1) % 3

\* nextImage without hintText = ''
SceneAfterNextKeepsText(image, text) ==
  [image |-> NextIndex(image), text |-> text]

\* nextImage's two assignments
SceneAfterNext(image, text) == [image |-> NextIndex(image), text |-> ""]

\* String(word) in place of word || '': null becomes the text "null"
HintOfString(word) == IF word.t = "string" THEN word.s ELSE word.t

\* word || '': null, undefined and the empty string are falsy
HintOf(word) == IF word.t = "string" /\ word.s # "" THEN word.s ELSE ""

\* resize reading canvas.width and canvas.height, the buffer it is about to
\* set, in place of the layout size
SurfaceForFromBuffer(cv, w, h, scale) ==
  [ width |-> MathRound(RMul(I(cv.width), scale)),
    height |-> MathRound(RMul(I(cv.height), scale)),
    styleWidth |-> w, styleHeight |-> h ]

\* resize's assignments to the canvas element
SurfaceFor(cv, w, h, scale) ==
  [ width |-> MathRound(RMul(I(w), scale)),
    height |-> MathRound(RMul(I(h), scale)),
    styleWidth |-> w, styleHeight |-> h ]

\* the host calls of resize() before its redraw(): the buffer size, the
\* display size and the transform
configureCalls(cv, scale) ==
  << Cmd("canvas.width=", <<I(cv.width)>>, ""),
     Cmd("canvas.height=", <<I(cv.height)>>, ""),
     Cmd("style.width=", <<I(cv.styleWidth)>>, "px"),
     Cmd("style.height=", <<I(cv.styleHeight)>>, "px"),
     Call("setTransform", <<scale, I(0), I(0), scale, I(0), I(0)>>) >>

\* resize without its ctx.setTransform: assigning canvas.width has reset the
\* context, so the scale is lost
resizeCallsNoTransform(cv, image, text, w, h, scale) ==
  << Cmd("canvas.width=", <<I(cv.width)>>, ""),
     Cmd("canvas.height=", <<I(cv.height)>>, ""),
     Cmd("style.width=", <<I(cv.styleWidth)>>, "px"),
     Cmd("style.height=", <<I(cv.styleHeight)>>, "px") >>
  \o redraw(image, text, w, h, cv.width, cv.height, scale)

\* resize ending with two redraws in place of one
resizeCallsRedrawTwice(cv, image, text, w, h, scale) ==
  configureCalls(cv, scale)
  \o redraw(image, text, w, h, cv.width, cv.height, scale)
  \o redraw(image, text, w, h, cv.width, cv.height, scale)

\* the host calls of resize(), the redraw it ends with included
resizeCalls(cv, image, text, w, h, scale) ==
  configureCalls(cv, scale)
  \o redraw(image, text, w, h, cv.width, cv.height, scale)

\* the calls of initCanvas before its resize()
contextSetup ==
  << Cmd("getContext", <<>>, "2d"),
     Set("lineCap", "round"),
     Set("lineJoin", "round") >>

\* What a call read (scene, layout size, canvas attributes, scale) when it made
\* its host calls: nothing else enters them.
Made(op, image, text, w, h, cv, scale) ==
  [ op |-> op, image |-> image, text |-> text, w |-> w, h |-> h, cv |-> cv,
    scale |-> scale ]

NoCalls == Made("none", -1, "", 0, 0, [width |-> 0, height |-> 0, styleWidth |-> -1, styleHeight |-> -1], I(1))

\* the host calls of a call, in order
CallsOf(m) ==
  CASE m.op = "getContext" -> << Cmd("getContext", <<>>, "2d") >>
    [] m.op = "initCanvas" ->
         contextSetup \o resizeCalls(m.cv, m.image, m.text, m.w, m.h, m.scale)
    [] m.op = "resize" -> resizeCalls(m.cv, m.image, m.text, m.w, m.h, m.scale)
    [] m.op = "redraw" ->
         redraw(m.image, m.text, m.w, m.h, m.cv.width, m.cv.height, m.scale)
    [] OTHER -> <<>>

\* ------------------------------------------------------------------- Init
\* The page has loaded and initCanvas has not run yet. A canvas element starts
\* 300 by 150 with no inline size; its context starts in the default state.
Init ==
  /\ surface \in Surfaces
  /\ \E l \in Layouts : clientWidth = l[1] /\ clientHeight = l[2]
  /\ devicePixelRatio \in DprValues
  /\ canvas = [width |-> 300, height |-> 150, styleWidth |-> -1, styleHeight |-> -1]
  /\ ctx = DefaultCtx
  /\ dpr = I(0)
  /\ hintText = Undeclared
  /\ currentImage = -1
  /\ phase = "loading"
  /\ app = {}
  /\ error = NoError
  /\ lastOp = "none"
  /\ arg = JsUndefined
  /\ made = NoCalls
  /\ before = [image |-> -1, text |-> Undeclared]
  /\ run = <<>>
  /\ synced = FALSE
  /\ again = FALSE
  /\ textInput = <<>>
  /\ loadLog = <<>>
  /\ listeners = {}
  /\ currentVideoIndex = 0
  /\ nextClicks = 0
  /\ videoSrc = ""
  /\ paused = TRUE
  /\ playLabel = "Play"
  /\ mediaEvents = <<>>
  /\ playable = FALSE
  /\ answerInput = <<>>
  /\ resultDiv = [className |-> "result", text |-> NoResult]
  /\ currentTime = 0
  /\ duration = NaN
  /\ timeDisplay = <<>>
  /\ recognition = "undefined"
  /\ session = "idle"
  /\ cleared = FALSE
  /\ currentWordIndex = 0
  /\ wordDisplay = <<>>
  /\ status = [className |-> "status", text |-> ""]
  /\ result = [className |-> "result", text |-> NoResult]
  /\ utterance = <<>>
  /\ analysis = [clicks |-> 0, calls |-> <<>>, uncaught |-> NoError]

\* ---------------------------------------------------------------- actions
\* initCanvas(canvas) with a missing surface: the guard throws
InitCanvasMissing ==
  /\ phase = "loading"
  /\ CanvasMissing(surface)
  /\ phase' = "failed"
  /\ error' = CanvasNotFound
  /\ lastOp' = "initCanvas"
  /\ UNCHANGED << host, page, canvas, ctx, dpr, hintText, currentImage, app,
                  arg, made, before, run, synced, again >>

\* initCanvas(canvas) with a surface that passes the guard and yields no 2D
\* context: canvas.getContext is not a function, or ctx is null and the
\* assignment ctx.lineCap = 'round' throws
InitCanvasInvalid ==
  /\ phase = "loading"
  /\ ~CanvasMissing(surface)
  /\ surface # "canvas"
  /\ phase' = "failed"
  /\ error' = TypeError
  /\ made' = IF surface = "contextNull"
             THEN [NoCalls EXCEPT !.op = "getContext"]
             ELSE NoCalls
  /\ lastOp' = "initCanvas"
  /\ UNCHANGED << host, page, canvas, ctx, dpr, hintText, currentImage, app,
                  arg, before, run, synced, again >>

\* initCanvas(canvas) with a canvas: context set up, state declared, resize(),
\* and the control surface returned
InitCanvasOk ==
  /\ phase = "loading"
  /\ surface = "canvas"
  /\ LET scale == DprOr1(devicePixelRatio)
         cv == SurfaceFor(canvas, clientWidth, clientHeight, scale)
         m == Made("initCanvas", 0, "", clientWidth, clientHeight, cv, scale)
     IN /\ dpr' = scale
        /\ hintText' = ""
        /\ currentImage' = 0
        /\ canvas' = cv
        /\ made' = m
        /\ ctx' = Run(ctx, CallsOf(m))
        /\ run' = << [image |-> 0, text |-> ""] >>
  /\ phase' = "ready"
  /\ app' = {"resize", "writeText", "nextImage"}
  /\ lastOp' = "initCanvas"
  /\ synced' = TRUE
  /\ UNCHANGED << host, page, error, arg, before, again >>

\* resize() starting from a fresh scene, as construction does
resizeResetsScene ==
  /\ "resize" \in app
  /\ LET scale == DprOr1(devicePixelRatio)
         cv == SurfaceFor(canvas, clientWidth, clientHeight, scale)
         m == Made("resize", 0, "", clientWidth, clientHeight, cv, scale)
     IN /\ dpr' = scale
        /\ canvas' = cv
        /\ made' = m
        /\ ctx' = Run(ctx, CallsOf(m))
  /\ currentImage' = 0
  /\ hintText' = ""
  /\ lastOp' = "resize"
  /\ before' = Scene
  /\ run' = << [image |-> 0, text |-> ""] >>
  /\ synced' = TRUE
  /\ again' = (lastOp \in {"initCanvas", "resize"} /\ synced)
  /\ UNCHANGED << host, phase, app, error, arg >>

\* resize(): what the method does to the module and the canvas
resize ==
  /\ "resize" \in app
  /\ LET scale == DprOr1(devicePixelRatio)
         cv == SurfaceFor(canvas, clientWidth, clientHeight, scale)
         m == Made("resize", currentImage, hintText, clientWidth,
                   clientHeight, cv, scale)
     IN /\ dpr' = scale
        /\ canvas' = cv
        /\ made' = m
        /\ ctx' = Run(ctx, CallsOf(m))
  /\ lastOp' = "resize"
  /\ before' = Scene
  /\ run' = << Scene >>
  /\ synced' = TRUE
  /\ again' = (lastOp \in {"initCanvas", "resize"} /\ synced)
  /\ UNCHANGED << host, hintText, currentImage, phase, app, error, arg >>

\* nextImage ending with resize() in place of redraw()
nextImageViaResize ==
  /\ "nextImage" \in app
  /\ Len(run) <= MaxRun
  /\ LET scene == SceneAfterNext(currentImage, hintText)
         scale == DprOr1(devicePixelRatio)
         cv == SurfaceFor(canvas, clientWidth, clientHeight, scale)
         m == Made("resize", scene.image, scene.text, clientWidth,
                   clientHeight, cv, scale)
     IN /\ currentImage' = scene.image
        /\ hintText' = scene.text
        /\ dpr' = scale
        /\ canvas' = cv
        /\ made' = m
        /\ ctx' = Run(ctx, CallsOf(m))
        /\ run' = Append(run, scene)
  /\ lastOp' = "nextImage"
  /\ before' = Scene
  /\ again' = FALSE
  /\ UNCHANGED << host, phase, app, error, arg, synced >>

\* nextImage(); the run of consecutive calls followed is bounded
nextImage ==
  /\ "nextImage" \in app
  /\ Len(run) <= MaxRun
  /\ LET scene == SceneAfterNext(currentImage, hintText)
         m == Made("redraw", scene.image, scene.text, clientWidth,
                   clientHeight, canvas, dpr)
     IN /\ currentImage' = scene.image
        /\ hintText' = scene.text
        /\ made' = m
        /\ ctx' = Run(ctx, CallsOf(m))
        /\ run' = Append(run, scene)
  /\ lastOp' = "nextImage"
  /\ before' = Scene
  /\ again' = FALSE
  /\ UNCHANGED << host, canvas, dpr, phase, app, error, arg, synced >>

\* writeText(word)
writeText(word) ==
  /\ "writeText" \in app
  /\ LET text == HintOf(word)
         m == Made("redraw", currentImage, text, clientWidth,
                   clientHeight, canvas, dpr)
     IN /\ hintText' = text
        /\ made' = m
        /\ ctx' = Run(ctx, CallsOf(m))
        /\ run' = << [image |-> currentImage, text |-> text] >>
        /\ arg' = word
  /\ lastOp' = "writeText"
  /\ before' = Scene
  /\ again' = FALSE
  /\ UNCHANGED << host, canvas, dpr, currentImage, phase, app, error, synced >>

\* a caller of the control surface calls resize(), nextImage() or
\* writeText(word); the page is not involved
Resize == resize /\ UNCHANGED << page, media >>

NextImage == nextImage /\ UNCHANGED << page, media >>

WriteText ==
  \E word \in WordArgs : writeText(word) /\ UNCHANGED << page, media >>

\* the host lays the canvas out at another size; the module is not told
HostLayoutChange ==
  /\ phase = "ready"
  /\ \E l \in Layouts :
       /\ l # << clientWidth, clientHeight >>
       /\ clientWidth' = l[1]
       /\ clientHeight' = l[2]
  /\ synced' = FALSE
  /\ UNCHANGED << surface, devicePixelRatio, canvas, ctx, dpr, hintText,
                  currentImage, phase, app, error, lastOp, arg, made, before,
                  run, again, textInput, media >>

\* the host's device pixel ratio changes (zoom, another screen)
HostScaleChange ==
  /\ phase = "ready"
  /\ \E v \in DprValues :
       /\ v # devicePixelRatio
       /\ devicePixelRatio' = v
  /\ synced' = FALSE
  /\ UNCHANGED << surface, clientWidth, clientHeight, canvas, ctx, dpr,
                  hintText, currentImage, phase, app, error, lastOp, arg, made,
                  before, run, again, textInput, media >>

Next ==
  \/ InitCanvasMissing /\ UNCHANGED media
  \/ InitCanvasInvalid /\ UNCHANGED media
  \/ InitCanvasOk /\ UNCHANGED media
  \/ Resize
  \/ NextImage
  \/ WriteText
  \/ HostLayoutChange
  \/ HostScaleChange

Spec == Init /\ [][Next]_vars

\* ------------------------------------------------------ the page (initApp)
\* The value of the text field is a sequence of characters; what reaches
\* writeText is the string they spell.
Whitespace == { " " }

Alphabet == { " ", "a" }

\* the longest value typed into the text field
MaxInput == 3

RECURSIVE ValuesUpTo(_)
ValuesUpTo(n) ==
  IF n = 0 THEN { <<>> }
  ELSE LET shorter == ValuesUpTo(n - 1)
       IN shorter \cup { Append(v, c) : v \in shorter, c \in Alphabet }

InputValues == ValuesUpTo(MaxInput)

\* the string a sequence of characters spells
RECURSIVE Str(_)
Str(v) == IF v = <<>> THEN "" ELSE Head(v) \o Str(Tail(v))

\* String.prototype.trim: the value without the whitespace at its two ends
RECURSIVE TrimStart(_)
TrimStart(v) ==
  IF v # <<>> /\ Head(v) \in Whitespace THEN TrimStart(Tail(v)) ELSE v

RECURSIVE TrimEnd(_)
TrimEnd(v) ==
  IF v # <<>> /\ v[Len(v)] \in Whitespace
  THEN TrimEnd(SubSeq(v, 1, Len(v) - 1))
  ELSE v

\* trimStart() in place of trim(): the whitespace at the end stays
TrimOnlyStart(v) == TrimStart(v)

Trim(v) == TrimEnd(TrimStart(v))

\* initApp(): it looks the elements up and calls initCanvas(canvas); when that
\* throws, no handler is registered
InitApp ==
  \/ InitCanvasMissing /\ UNCHANGED media
  \/ InitCanvasInvalid /\ UNCHANGED media
  \/ InitCanvasOk /\ UNCHANGED media

\* the user edits the text field
TypeText ==
  /\ phase # "loading"
  /\ \E v \in InputValues :
       /\ v # textInput
       /\ textInput' = v
  /\ UNCHANGED << host, canvas, ctx, dpr, hintText, currentImage, phase, app,
                  error, lastOp, arg, made, before, run, synced, again,
                  media >>

\* click on the Write button: app.writeText(textInput.value.trim())
WriteClick ==
  /\ phase = "ready"
  /\ writeText(JsString(Str(Trim(textInput))))
  /\ UNCHANGED << page, media >>

\* click on the Next button: app.nextImage(); textInput.value = ''
NextClick ==
  /\ phase = "ready"
  /\ nextImage
  /\ textInput' = <<>>
  /\ UNCHANGED media

\* the resize event of the window: app.resize()
WindowResize ==
  /\ phase = "ready"
  /\ resize
  /\ UNCHANGED << page, media >>

UiNext ==
  \/ InitApp
  \/ TypeText
  \/ WriteClick
  \/ NextClick
  \/ WindowResize

UiSpec == Init /\ [][UiNext]_vars

\* ---------------------------------------------------- the page as a whole
\* the video items, the answers as their characters
videoItems ==
  << [video |-> "media/comer.mp4", answer |-> << "c", "o", "m", "e", "r" >>],
     [video |-> "media/beber.mp4", answer |-> << "b", "e", "b", "e", "r" >>],
     [video |-> "media/dormir.mp4",
      answer |-> << "d", "o", "r", "m", "i", "r" >>] >>

\* String.prototype.toLowerCase on the letters the answers are typed with
UpperCase ==
  [c \in {"B", "C", "D", "E", "H", "I", "M", "O", "R"} |->
     CASE c = "B" -> "b" [] c = "C" -> "c" [] c = "D" -> "d" [] c = "E" -> "e"
       [] c = "H" -> "h" [] c = "I" -> "i" [] c = "M" -> "m" [] c = "O" -> "o"
       [] OTHER -> "r"]

LowerChar(c) == IF c \in DOMAIN UpperCase THEN UpperCase[c] ELSE c

\* toLowerCase() left out
toLowerCaseKeepsCase(v) == v

toLowerCase(v) == [i \in 1 .. Len(v) |-> LowerChar(v[i])]

\* what a user types into the answer field
AnswerValues ==
  { <<>>, << " " >>,
    << "c", "o", "m", "e", "r" >>, << "C", "o", "m", "e", "R" >>,
    << " ", "c", "o", "m", "e", "r", " " >>, << "c", "o", "m", "e" >>,
    << "b", "e", "b", "e", "r" >>, << " ", "B", "e", "b", "e", "r" >>,
    << "d", "o", "r", "m", "i", "r" >>, << "D", "O", "R", "M", "I", "R", " " >> }

\* the most clicks on the Next button of the videos that are counted
MaxClicks == 4

\* the most media events waiting for delivery
MaxPending == 2

\* video.load(): the element is paused, its pending events are dropped, and
\* the new source starts to load
videoLoad ==
  /\ videoSrc' = videoItems[currentVideoIndex' + 1].video
  /\ paused' = TRUE
  /\ mediaEvents' = <<>>
  /\ playable' = TRUE
  /\ currentTime' = 0
  /\ duration' = NaN

\* the media 'play' | 'pause' | 'ended' listeners
labelAfter(event) == IF event = "play" THEN "Pause" ELSE "Play"

\* video.pause(): a playing element is paused and 'pause' is queued
eventsAfterPause == IF paused THEN mediaEvents ELSE Append(mediaEvents, "pause")

\* the words to practise, as their characters
spanishWords ==
  << << "m", "a", "n", "z", "a", "n", "a" >>,
     << "p", "l", "á", "t", "a", "n", "o" >>,
     << "n", "a", "r", "a", "n", "j", "a" >>,
     << "h", "o", "l", "a" >>,
     << "g", "r", "a", "c", "i", "a", "s" >>,
     << "a", "g", "u", "a" >>,
     << "l", "i", "b", "r", "o" >>,
     << "c", "a", "s", "a" >> >>

\* what the markup of the page shows as the word before any click
MarkupWords == { spanishWords[1] }

\* the messages of the speech status
Listening == "Listening... Speak now!"

ErrorStatus == "Error. Please try again."

DidNotHear == "Did not hear anything. Try again."

NotSupported == "Speech recognition not supported in this browser."

\* initSpeech(): the recognition object when the browser has the API, its
\* handlers and the three button listeners
initSpeech ==
  /\ recognition' \in {"null", "SpeechRecognition"}
  /\ wordDisplay' \in MarkupWords
  /\ UNCHANGED << session, cleared, currentWordIndex, status, result,
                  utterance >>

\* initVideo(): the listeners, then video.src = ...; video.load()
initVideo ==
  /\ UNCHANGED << currentVideoIndex, nextClicks, playLabel, answerInput,
                  resultDiv, timeDisplay >>
  /\ videoLoad

\* each initializer called in a try block of its own: a throw of initApp
\* does not keep initSpeech and initVideo from running
DomContentLoadedEachGuarded ==
  /\ loadLog = <<>>
  /\ \/ InitCanvasMissing \/ InitCanvasInvalid \/ InitCanvasOk
  /\ loadLog' = << "initApp", "initSpeech", "initVideo" >>
  /\ listeners' = (IF surface = "canvas" THEN {"canvas"} ELSE {})
                     \cup {"speech", "video"}
  /\ initSpeech
  /\ initVideo
  /\ UNCHANGED analysis

\* the DOMContentLoaded handler: initApp(); initSpeech(); initVideo(); a
\* throw of initApp ends the handler
DomContentLoaded ==
  /\ loadLog = <<>>
  /\ \/ /\ InitCanvasMissing \/ InitCanvasInvalid
        /\ loadLog' = << "initApp" >>
        /\ listeners' = {}
        /\ UNCHANGED << videoVars, speechVars, analysis >>
     \/ /\ InitCanvasOk
        /\ loadLog' = << "initApp", "initSpeech", "initVideo" >>
        /\ listeners' = {"canvas", "speech", "video"}
        /\ initSpeech
        /\ initVideo
        /\ UNCHANGED analysis

\* what the video and the speech handlers leave alone
canvasPart ==
  << host, page, canvas, ctx, dpr, hintText, currentImage, phase, app, error,
     lastOp, arg, made, before, run, synced, again, analysis >>

\* the user edits the answer field
TypeAnswer ==
  /\ loadLog # <<>>
  /\ \E v \in AnswerValues :
       /\ v # answerInput
       /\ answerInput' = v
  /\ UNCHANGED << canvasPart, loadVars, speechVars, timeVars,
                  currentVideoIndex, nextClicks, videoSrc, paused,
                  playLabel, mediaEvents, playable, resultDiv >>

\* the message of the Check handler for an answer field v and video index i
checkResult(v, i) ==
  LET userAnswer == toLowerCase(Trim(v))
      correctAnswer == toLowerCase(videoItems[i + 1].answer)
  IN IF userAnswer = correctAnswer
     THEN [className |-> "result correct",
           text |-> [kind |-> "correct", user |-> <<>>,
                     correct |-> correctAnswer]]
     ELSE [className |-> "result incorrect",
           text |-> [kind |-> "incorrect", user |-> userAnswer,
                     correct |-> correctAnswer]]

\* click on the Check button
CheckClick ==
  /\ "video" \in listeners
  /\ resultDiv' = checkResult(answerInput, currentVideoIndex)
  /\ UNCHANGED << canvasPart, loadVars, speechVars, timeVars,
                  currentVideoIndex, nextClicks, videoSrc, paused,
                  playLabel, mediaEvents, playable, answerInput >>

\* the index after a Next click that stops at the last video
NextVideoIndexSaturating(i) == IF i + 1 < Len(videoItems) THEN i + 1 ELSE i

NextVideoIndex(i) == (i + 1) % Len(videoItems)

\* click on the Next button of the video part
NextVideoClick ==
  /\ "video" \in listeners
  /\ nextClicks < MaxClicks
  /\ nextClicks' = nextClicks + 1
  /\ currentVideoIndex' = NextVideoIndex(currentVideoIndex)
  /\ videoLoad
  /\ answerInput' = <<>>
  /\ resultDiv' = [className |-> "result", text |-> NoResult]
  /\ playLabel' = "Play"
  /\ UNCHANGED << canvasPart, loadVars, speechVars, timeDisplay >>

\* click on the Play/Pause button: video.play() unpauses the element and
\* queues 'play' unless the source cannot be played, in which case its
\* promise is rejected and nothing else happens
PlayClick ==
  /\ "video" \in listeners
  /\ Len(mediaEvents) < MaxPending
  /\ IF paused
     THEN /\ paused' = ~playable
          /\ mediaEvents' = IF playable THEN Append(mediaEvents, "play")
                            ELSE mediaEvents
          /\ playLabel' = "Pause"
     ELSE /\ paused' = TRUE
          /\ mediaEvents' = eventsAfterPause
          /\ playLabel' = "Play"
  /\ UNCHANGED << canvasPart, loadVars, speechVars, timeVars,
                  currentVideoIndex, nextClicks, videoSrc, playable,
                  answerInput, resultDiv >>

\* click on the Stop button: video.pause(); currentTime = 0; label 'Play'
StopClick ==
  /\ "video" \in listeners
  /\ Len(mediaEvents) < MaxPending
  /\ paused' = TRUE
  /\ mediaEvents' = eventsAfterPause
  /\ currentTime' = 0
  /\ playLabel' = "Play"
  /\ UNCHANGED << canvasPart, loadVars, speechVars, duration, timeDisplay,
                  currentVideoIndex, nextClicks, videoSrc, playable,
                  answerInput, resultDiv >>

\* the oldest pending media event reaches its listener
MediaEvent ==
  /\ mediaEvents # <<>>
  /\ playLabel' = labelAfter(Head(mediaEvents))
  /\ mediaEvents' = Tail(mediaEvents)
  /\ UNCHANGED << canvasPart, loadVars, speechVars, timeVars,
                  currentVideoIndex, nextClicks, videoSrc, paused,
                  playable, answerInput, resultDiv >>

\* host: playback reaches the end of the video; the element pauses itself
\* and 'pause' and 'ended' are queued
PlaybackEnds ==
  /\ ~paused
  /\ playable
  /\ mediaEvents = <<>>
  /\ paused' = TRUE
  /\ mediaEvents' = << "pause", "ended" >>
  /\ UNCHANGED << canvasPart, loadVars, speechVars, timeVars,
                  currentVideoIndex, nextClicks, videoSrc, playLabel,
                  playable, answerInput, resultDiv >>

\* host: the source turns out to be missing or undecodable; the element keeps
\* its paused flag
SourceFails ==
  /\ videoSrc # ""
  /\ playable
  /\ playable' = FALSE
  /\ UNCHANGED << canvasPart, loadVars, speechVars, timeVars,
                  currentVideoIndex, nextClicks, videoSrc, paused,
                  playLabel, mediaEvents, answerInput, resultDiv >>

\* click on the Hear button: the shown word goes to synth.speak
HearClick ==
  /\ "speech" \in listeners
  /\ utterance' = wordDisplay
  /\ UNCHANGED << canvasPart, loadVars, videoVars, recognition, session,
                  cleared, currentWordIndex, wordDisplay, status, result >>

\* click on the Speak button: with a recognition object the result is cleared
\* and recognition.start() is called, which throws while a session runs;
\* without one the status says so
SpeakClick ==
  /\ "speech" \in listeners
  /\ IF recognition # "null"
     THEN /\ result' = [className |-> "result", text |-> NoResult]
          /\ session' = IF session = "idle" THEN "starting" ELSE session
          /\ cleared' = IF session = "idle" THEN FALSE ELSE cleared
          /\ UNCHANGED status
     ELSE /\ status' = [status EXCEPT !.text = NotSupported]
          /\ UNCHANGED << result, session, cleared >>
  /\ UNCHANGED << canvasPart, loadVars, videoVars, recognition,
                  currentWordIndex, wordDisplay, utterance >>

\* recognition.onstart: the session listens
OnStart ==
  /\ session = "starting"
  /\ session' = "started"
  /\ status' = [className |-> "status listening", text |-> Listening]
  /\ UNCHANGED << canvasPart, loadVars, videoVars, recognition, cleared,
                  currentWordIndex, wordDisplay, result, utterance >>

\* what a session can hear
Transcripts ==
  { << "h", "o", "l", "a" >>, << "H", "o", "l", "a" >>,
    << "M", "a", "n", "z", "a", "n", "a" >>, << "a", "g", "u", "a" >> }

\* recognition.onresult: the transcript against the shown word
OnResult ==
  /\ session = "started"
  /\ session' = "heard"
  /\ \E transcript \in Transcripts :
       LET spoken == toLowerCase(transcript)
           target == toLowerCase(wordDisplay)
       IN result' = IF spoken = target
                    THEN [className |-> "result correct",
                          text |-> [kind |-> "correct", user |-> spoken,
                                    correct |-> <<>>]]
                    ELSE [className |-> "result incorrect",
                          text |-> [kind |-> "incorrect", user |-> spoken,
                                    correct |-> target]]
  /\ status' = [className |-> "status", text |-> ""]
  /\ UNCHANGED << canvasPart, loadVars, videoVars, recognition, cleared,
                  currentWordIndex, wordDisplay, utterance >>

\* recognition.onerror: before or while the session listens
OnError ==
  /\ session \in {"starting", "started"}
  /\ session' = "failed"
  /\ status' = [className |-> "status", text |-> ErrorStatus]
  /\ UNCHANGED << canvasPart, loadVars, videoVars, recognition, cleared,
                  currentWordIndex, wordDisplay, result, utterance >>

\* onend that writes its message whatever the status reads
OnEndAlways ==
  /\ session \in {"started", "heard", "failed"}
  /\ session' = "idle"
  /\ status' = [className |-> "status", text |-> DidNotHear]
  /\ UNCHANGED << canvasPart, loadVars, videoVars, recognition, cleared,
                  currentWordIndex, wordDisplay, result, utterance >>

\* recognition.onend: the session is over; a status that still reads
\* 'Listening... Speak now!' is replaced
OnEnd ==
  /\ session \in {"started", "heard", "failed"}
  /\ session' = "idle"
  /\ status' = IF status.text = Listening
               THEN [className |-> "status", text |-> DidNotHear]
               ELSE status
  /\ UNCHANGED << canvasPart, loadVars, videoVars, recognition, cleared,
                  currentWordIndex, wordDisplay, result, utterance >>

\* click on the Next word button
NextWordClick ==
  /\ "speech" \in listeners
  /\ currentWordIndex' = (currentWordIndex + 1) % Len(spanishWords)
  /\ wordDisplay' = spanishWords[currentWordIndex' + 1]
  /\ result' = [className |-> "result", text |-> NoResult]
  /\ status' = [className |-> "status", text |-> ""]
  /\ cleared' = (cleared \/ session # "idle")
  /\ UNCHANGED << canvasPart, loadVars, videoVars, recognition, session,
                  utterance >>

SpeechNext ==
  \/ DomContentLoaded
  \/ HearClick
  \/ SpeakClick
  \/ OnStart
  \/ OnResult
  \/ OnError
  \/ OnEnd
  \/ NextWordClick

\* ------------------------------------------------------ the time display
\* Number to String, for a whole number that is not negative
DigitChars == << "0", "1", "2", "3", "4", "5", "6", "7", "8", "9" >>

RECURSIVE NumberToString(_)
NumberToString(n) ==
  IF n < 10
  THEN << DigitChars[n + 1] >>
  ELSE NumberToString(n \div 10) \o << DigitChars[(n % 10) + 1] >>

\* formatTime with the seconds never padded
formatTimeUnpadded(seconds) ==
  LET mins == seconds \div 60
      secs == seconds % 60
  IN NumberToString(mins) \o << ":" >> \o NumberToString(secs)

\* formatTime(seconds): mins + ':' + (secs < 10 ? '0' : '') + secs
formatTime(seconds) ==
  LET mins == seconds \div 60
      secs == seconds % 60
  IN NumberToString(mins) \o << ":" >>
       \o (IF secs < 10 THEN << "0" >> ELSE <<>>) \o NumberToString(secs)

\* video.duration || 0
DurationOr0(d) == IF d = NaN \/ d = 0 THEN 0 ELSE d

\* updateTime(): current + ' / ' + duration
updateTime(position, length) ==
  formatTime(position) \o << " ", "/", " " >>
    \o formatTime(DurationOr0(length))

\* the longest video, in seconds
MaxSeconds == 610

\* the lengths of the videos
Durations == {7, 75, MaxSeconds}

\* the 'loadedmetadata' event: the length is known; updateTime()
LoadedMetadata ==
  /\ "video" \in listeners
  /\ duration = NaN
  /\ \E d \in Durations : duration' = d
  /\ timeDisplay' = updateTime(currentTime, duration')
  /\ UNCHANGED << canvasPart, loadVars, speechVars, currentVideoIndex,
                  nextClicks, videoSrc, paused, playLabel, mediaEvents,
                  playable, answerInput, resultDiv, currentTime >>

\* the 'timeupdate' event: the video is at some position of its length;
\* the progress bar is set and updateTime() runs
TimeUpdate ==
  /\ "video" \in listeners
  /\ \E position \in 0 .. DurationOr0(duration) : currentTime' = position
  /\ timeDisplay' = updateTime(currentTime', duration)
  /\ UNCHANGED << canvasPart, loadVars, speechVars, currentVideoIndex,
                  nextClicks, videoSrc, paused, playLabel, mediaEvents,
                  playable, answerInput, resultDiv, duration >>

TimeNext ==
  \/ DomContentLoaded
  \/ LoadedMetadata
  \/ TimeUpdate
  \/ StopClick

\* ------------------------------------- the copy with the Analyze button
\* the function declarations a handler registered by initApp can name: the
\* top-level ones; handleVideoAnalysis is declared inside initCanvas
ScopeOfInitApp == {"initApp", "initCanvas"}

\* initApp() of this copy: initCanvas(canvas), the canvas listeners, and the
\* Analyze listener; its DOMContentLoaded handler calls nothing else
InitAppAnalyze ==
  /\ loadLog = <<>>
  /\ loadLog' = << "initApp" >>
  /\ \/ /\ InitCanvasMissing \/ InitCanvasInvalid
        /\ listeners' = {}
     \/ /\ InitCanvasOk
        /\ listeners' = {"canvas", "analyze"}
  /\ UNCHANGED << videoVars, speechVars, analysis >>

\* the most clicks on the Analyze button that are counted
MaxAnalyze == 2

\* click on the Analyze button: answer = videoAnswerInput.value.trim();
\* handleVideoAnalysis(answer, promptVideo); videoAnswerInput.value = ''.
\* A name out of scope throws and ends the handler before the field is
\* emptied.
AnalyzeClick ==
  /\ "analyze" \in listeners
  /\ analysis.clicks < MaxAnalyze
  /\ LET answer == Trim(answerInput)
     IN IF "handleVideoAnalysis" \in ScopeOfInitApp
        THEN /\ analysis' = [clicks |-> analysis.clicks + 1,
                             calls |-> Append(analysis.calls, answer),
                             uncaught |-> NoError]
             /\ answerInput' = <<>>
        ELSE /\ analysis' = [analysis EXCEPT !.clicks = @ + 1,
                                             !.uncaught = ReferenceError]
             /\ UNCHANGED answerInput
  /\ UNCHANGED << host, page, canvas, ctx, dpr, hintText, currentImage, phase,
                  app, error, lastOp, arg, made, before, run, synced, again,
                  loadVars, speechVars, currentVideoIndex, nextClicks,
                  videoSrc, paused, playLabel, mediaEvents, playable,
                  resultDiv, timeVars >>

\* the user edits the video answer field of this copy
TypeVideoAnswer ==
  /\ "analyze" \in listeners
  /\ \E v \in AnswerValues :
       /\ v # answerInput
       /\ answerInput' = v
  /\ UNCHANGED << canvasPart, loadVars, speechVars, timeVars, currentVideoIndex,
                  nextClicks, videoSrc, paused, playLabel, mediaEvents,
                  playable, resultDiv >>

AnalyzeNext ==
  \/ InitAppAnalyze
  \/ TypeText
  \/ WriteClick
  \/ NextClick
  \/ WindowResize
  \/ TypeVideoAnswer
  \/ AnalyzeClick

\* one layout and one pixel ratio: the video part does not read them
PageInit ==
  /\ Init
  /\ clientWidth = 400
  /\ devicePixelRatio = DprNumber(2, 1)

PageNext ==
  \/ DomContentLoaded
  \/ TypeAnswer
  \/ CheckClick
  \/ NextVideoClick
  \/ PlayClick
  \/ StopClick
  \/ MediaEvent
  \/ PlaybackEnds
  \/ SourceFails

PageSpec == PageInit /\ [][PageNext]_vars

SpeechSpec == PageInit /\ [][SpeechNext]_vars

AnalyzeSpec == PageInit /\ [][AnalyzeNext]_vars

TimeSpec == PageInit /\ [][TimeNext]_vars

\* ----------------------------------------------------------------- claims
\* what the claims read off a state
Calls == CallsOf(made)

OpsOf(calls) == { calls[i].op : i \in 1 .. Len(calls) }

ColoursOf(calls) == { calls[i].text : i \in 1 .. Len(calls) }

HasCall(op) == op \in OpsOf(Calls)

\* the illustrations a redraw drew, told by the colour only each one uses
Illustrations ==
  LET colours == ColoursOf(Calls)
  IN { name \in {"apple", "banana", "orange"} :
         \/ name = "apple" /\ "#ff6b6b" \in colours
         \/ name = "banana" /\ "#ffcf4d" \in colours
         \/ name = "orange" /\ "#ff9f1c" \in colours }

FruitNames == << "apple", "banana", "orange" >>

\* the number of nextImage calls in the current run
RunCalls == Len(run) - 1

\* the host's scale factor: the device pixel ratio, or 1 when absent or zero
HostScale ==
  IF devicePixelRatio.def /\ devicePixelRatio.n # 0
  THEN [n |-> devicePixelRatio.n, d |-> devicePixelRatio.d]
  ELSE [n |-> 1, d |-> 1]

\* n is side * scale rounded to the nearest whole number, a tie going up:
\* n - 1/2 <= side * scale < n + 1/2
IsRounded(n, side, scale) ==
  /\ (2 * n - 1) * scale.d <= 2 * side * scale.n
  /\ 2 * side * scale.n < (2 * n + 1) * scale.d

\* the context's transform is the uniform scale by s and nothing else
UniformScale(c, s) ==
  /\ c.cur.a = s /\ c.cur.d = s
  /\ c.cur.b = I(0) /\ c.cur.c = I(0) /\ c.cur.e = I(0) /\ c.cur.f = I(0)
  /\ c.cur.local = <<>>

\* C1: nextImage() sets the illustration to (current + 1) mod 3 and the overlay
\* text to empty whatever it was, and its redraw draws the new illustration
\* (banana after apple) and no overlay text.
C1_NextImageAdvancesAndClears ==
  lastOp = "nextImage" =>
    /\ currentImage = (before.image + 1) % 3
    /\ hintText = ""
    /\ LET drawn == Illustrations
       IN /\ drawn = { FruitNames[((before.image + 1) % 3) + 1] }
          /\ before.image = 0 => drawn = {"banana"}
    /\ ~HasCall("fillText")

C1_Witness ==
  /\ lastOp = "nextImage"
  /\ before = [image |-> 0, text |-> "hola"]
  /\ currentImage = 1
  /\ HasCall("clearRect")

\* C2: after construction and any calls the illustration index is 0, 1 or 2;
\* construction leaves it 0 and the overlay text empty.
C2_IllustrationInRange ==
  /\ phase = "ready" => currentImage \in {0, 1, 2}
  /\ (phase = "ready" /\ lastOp = "initCanvas") =>
       (currentImage = 0 /\ hintText = "")

C2_Witness ==
  /\ phase = "ready"
  /\ lastOp = "nextImage"
  /\ before.image = 2
  /\ currentImage = 0

\* C3: from every starting illustration three consecutive nextImage() calls
\* return to it, and one or two calls do not.
C3_PeriodThree ==
  phase = "ready" =>
    /\ RunCalls = 3 => currentImage = run[1].image
    /\ RunCalls \in {1, 2} => currentImage # run[1].image

C3_Witness ==
  /\ RunCalls = 3
  /\ run[1].image = 2
  /\ currentImage = 2

\* C4 as stated: n nextImage() calls leave the same scene (illustration and
\* overlay text) as n mod 3 calls from the same start.
C4_SameSceneAsModThree ==
  (phase = "ready" /\ RunCalls >= 1) => Scene = run[(RunCalls % 3) + 1]

\* C4 amended: n calls leave the same illustration as n mod 3 calls, and the
\* same overlay text except when n is a positive multiple of 3 and the
\* starting text was not empty: then n calls leave it empty and zero calls
\* leave it as it was.
C4_SameIllustrationAsModThree ==
  (phase = "ready" /\ RunCalls >= 1) =>
    /\ currentImage = run[(RunCalls % 3) + 1].image
    /\ IF RunCalls % 3 = 0 /\ run[1].text # ""
       THEN hintText = "" /\ run[(RunCalls % 3) + 1].text = run[1].text
       ELSE hintText = run[(RunCalls % 3) + 1].text

C4_Witness ==
  /\ RunCalls = 3
  /\ run[1] = [image |-> 1, text |-> "hola"]
  /\ Scene = [image |-> 1, text |-> ""]

\* C5: writeText(x) leaves the overlay text exactly x for a string x and empty
\* for null or no argument, and leaves the illustration as it was.
C5_WriteTextSetsOverlay ==
  lastOp = "writeText" =>
    /\ arg.t = "string" => hintText = arg.s
    /\ arg.t \in {"null", "undefined"} => hintText = ""
    /\ currentImage = before.image

C5_Witness ==
  /\ lastOp = "writeText"
  /\ arg = JsString(" hi ")
  /\ before = [image |-> 1, text |-> "hola"]
  /\ hintText = " hi "

\* C6: construction with a missing surface raises the configuration error
\* before the context is acquired and before any resize or draw call: no
\* host call is made, nothing is initialized and nothing is returned.
C6_MissingSurfaceFailsFirst ==
  (surface \in {"null", "undefined"} /\ phase # "loading") =>
    /\ phase = "failed"
    /\ error = CanvasNotFound
    /\ Calls = <<>>
    /\ app = {}
    /\ canvas = [width |-> 300, height |-> 150, styleWidth |-> -1,
                 styleHeight |-> -1]
    /\ ctx = DefaultCtx
    /\ currentImage = -1 /\ hintText = Undeclared

C6_Witness ==
  /\ surface = "undefined"
  /\ phase = "failed"
  /\ lastOp = "initCanvas"

\* C7: construction with a surface that is present but yields no 2D context
\* fails with the same configuration error as a missing surface.
C7_InvalidSurfaceConfigurationError ==
  (surface \in {"noGetContext", "contextNull"} /\ phase # "loading") =>
    (phase = "failed" /\ error = CanvasNotFound)

\* C8: right after construction or resize() the buffer is round(width x scale)
\* by round(height x scale), the transform is the uniform scale
\* (scale, 0, 0, scale, 0, 0), and scale is the device pixel ratio or 1 when
\* that is absent or zero; 400 x 300 at scale 2 gives 800 x 600.
C8_BufferAndTransformAfterResize ==
  (phase = "ready" /\ lastOp \in {"initCanvas", "resize"} /\ synced) =>
    /\ IsRounded(canvas.width, clientWidth, HostScale)
    /\ IsRounded(canvas.height, clientHeight, HostScale)
    /\ dpr = HostScale
    /\ UniformScale(ctx, HostScale)
    /\ (clientWidth = 400 /\ clientHeight = 300 /\ HostScale = I(2)) =>
         (canvas.width = 800 /\ canvas.height = 600)

C8_Witness ==
  /\ lastOp = "resize"
  /\ synced
  /\ clientWidth = 400 /\ clientHeight = 300
  /\ devicePixelRatio = DprNumber(2, 1)
  /\ canvas.width = 800 /\ canvas.height = 600

\* C9 as stated: in every state after construction, the host being free to
\* change the layout size and the scale factor, the buffer is the current
\* layout size times the current scale factor, rounded, and the transform is
\* the uniform scale by it.
C9_BufferTracksHost ==
  phase = "ready" =>
    /\ IsRounded(canvas.width, clientWidth, HostScale)
    /\ IsRounded(canvas.height, clientHeight, HostScale)
    /\ UniformScale(ctx, HostScale)

\* C9 amended: in every state after construction the buffer is the layout
\* size read by the last configuration (construction or resize(), kept as the
\* display size) times the scale factor read then, rounded, and the transform
\* is the uniform scale by that factor; these are the host's current layout
\* size and scale factor as long as the host has not changed them since.
C9_BufferTracksLastConfiguration ==
  phase = "ready" =>
    /\ IsRounded(canvas.width, canvas.styleWidth, dpr)
    /\ IsRounded(canvas.height, canvas.styleHeight, dpr)
    /\ UniformScale(ctx, dpr)
    /\ synced =>
         /\ canvas.styleWidth = clientWidth
         /\ canvas.styleHeight = clientHeight
         /\ dpr = HostScale

C9_Witness ==
  /\ phase = "ready"
  /\ lastOp = "nextImage"
  /\ ~synced
  /\ made.w = clientWidth
  /\ canvas.styleWidth # clientWidth
  /\ dpr # HostScale

\* C10: a resize() that follows a configuration (construction or resize())
\* with the layout size and the scale factor unchanged leaves the buffer size,
\* the display size and the transform as they were.
C10_ResizeIdempotent ==
  [][ (lastOp \in {"initCanvas", "resize"} /\ synced
         /\ lastOp' = "resize" /\ synced')
      => /\ canvas' = canvas
         /\ dpr' = dpr
         /\ UniformScale(ctx, dpr) /\ UniformScale(ctx', dpr) ]_vars

C10_Witness ==
  /\ lastOp = "resize"
  /\ again
  /\ synced
  /\ dpr = R(3, 2)
  /\ canvas.width = MathRound(RMul(I(clientWidth), dpr))

\* the positions of the calls of a sequence that are one of the given
\* operations, or carry one of the given string arguments
PositionsOfOps(calls, ops) == { i \in 1 .. Len(calls) : calls[i].op \in ops }

PositionsOfTexts(calls, texts) ==
  { i \in 1 .. Len(calls) : calls[i].text \in texts }

\* every position of the first set lies before every position of the second
AllBefore(first, second) == \A i \in first : \A j \in second : i < j

\* C11: every redraw clears first, then paints the background panel, then
\* exactly one illustration (apple for 0, banana for 1, orange for 2), then
\* the overlay text; the text is painted if and only if it is not empty.
C11_RedrawOrder ==
  phase = "ready" =>
    LET calls  == Calls
        clears == PositionsOfOps(calls, {"clearRect"})
        panel  == PositionsOfTexts(calls, {"#fff6cc"})
        fruit  == PositionsOfTexts(calls, {"#ff6b6b", "#ffcf4d", "#ff9f1c"})
        paints == PositionsOfOps(calls, {"fill", "stroke"})
        texts  == PositionsOfOps(calls, {"fillText"})
        early  == { i \in paints : AllBefore({i}, fruit) }
    IN /\ Cardinality(clears) = 1
       /\ AllBefore(clears, panel \cup paints \cup fruit \cup texts)
       /\ Cardinality(panel) = 1
       /\ Cardinality(early) = 1
       /\ AllBefore(panel, early)
       /\ fruit # {}
       /\ Illustrations = { FruitNames[currentImage + 1] }
       /\ (texts # {}) <=> (hintText # "")
       /\ Cardinality(texts) <= 1
       /\ AllBefore(paints \cup fruit, texts)
       /\ \A t \in texts : calls[t].text = hintText

C11_Witness ==
  /\ lastOp = "writeText"
  /\ currentImage = 2
  /\ hintText = "hola"
  /\ HasCall("fillText")
  /\ Illustrations = {"orange"}

\* the calls that configure the surface, and the calls that are neither
\* configuration nor the context set-up of construction: the draw commands
ConfigureOps ==
  { "canvas.width=", "canvas.height=", "style.width=", "style.height=",
    "setTransform" }

SetupOps == ConfigureOps \cup { "getContext", "lineCap=", "lineJoin=" }

\* C12: each resize(), nextImage() and writeText() makes exactly one redraw,
\* of the scene as the call left it, finished when the call returns;
\* construction makes one configuration and then one redraw before it returns
\* the control surface, and no draw command is made before the surface is
\* configured.
C12_OneRedrawPerCall ==
  LET calls  == Calls
      clears == PositionsOfOps(calls, {"clearRect"})
      config == PositionsOfOps(calls, ConfigureOps)
      draws  == { i \in 1 .. Len(calls) : calls[i].op \notin SetupOps }
  IN /\ phase # "ready" => (draws = {} /\ app = {})
     /\ phase = "ready" =>
          /\ Cardinality(clears) = 1
          /\ \A i \in clears : \A j \in draws : i <= j
          /\ made.image = currentImage
          /\ made.text = hintText
          /\ ctx.stack = <<>>
          /\ lastOp \in {"initCanvas", "resize"} =>
                (Cardinality(config) = 5 /\ AllBefore(config, draws))
          /\ lastOp \in {"nextImage", "writeText"} => config = {}

C12_Witness ==
  /\ lastOp = "writeText"
  /\ before = [image |-> 1, text |-> ""]
  /\ Scene = [image |-> 1, text |-> "hola"]
  /\ made.text = "hola"
  /\ Cardinality(PositionsOfOps(Calls, {"clearRect"})) = 1

\* C14: a non-empty overlay text is drawn with the font size
\* max(28, floor(min(width, height) / 6)), centred on the point
\* (0.7 x width, 0.55 x height): size 50 at (280, 165) for 400 x 300, and size
\* 28 whenever min(width, height) < 174.
C14_OverlayTextSizeAndPlace ==
  (phase = "ready" /\ hintText # "") =>
    LET calls == Calls
        w     == made.w
        h     == made.h
        fonts == PositionsOfOps(calls, {"font="})
        texts == PositionsOfOps(calls, {"fillText"})
    IN /\ Cardinality(fonts) = 1 /\ Cardinality(texts) = 1
       /\ AllBefore(fonts, texts)
       /\ \A i \in fonts :
            /\ calls[i].args = << I(Max(28, Min(w, h) \div 6)) >>
            /\ (w = 400 /\ h = 300) => calls[i].args = << I(50) >>
            /\ Min(w, h) < 174 => calls[i].args = << I(28) >>
       /\ \A i \in texts :
            /\ calls[i].args[1].n * 10 = 7 * w * calls[i].args[1].d
            /\ calls[i].args[2].n * 100 = 55 * h * calls[i].args[2].d
            /\ (w = 400 /\ h = 300) => calls[i].args = << I(280), I(165) >>
       /\ \E i \in 1 .. Len(calls) : calls[i] = Set("textAlign", "center")
       /\ \E i \in 1 .. Len(calls) : calls[i] = Set("textBaseline", "middle")

C14_Witness ==
  /\ lastOp = "writeText"
  /\ hintText = " hi "
  /\ made.w = 173 /\ made.h = 600
  /\ \E i \in 1 .. Len(Calls) :
       Calls[i] = Cmd("font=", << I(28) >>, "bold px system-ui, Arial")

\* C15: once construction has succeeded, resize(), nextImage() and writeText()
\* in any order and number complete without an error: no host call they make
\* is refused, the closure state stays what every call can work with, and
\* the three methods stay available.
C15_CallsNeverFail ==
  phase = "ready" =>
    LET calls == Calls
    IN /\ error = NoError
       /\ \A i \in 1 .. Len(calls) : ~HostThrows(calls[i])
       /\ dpr.n > 0 /\ dpr.d > 0
       /\ currentImage \in 0 .. 2
       /\ hintText \in Texts
       /\ app = {"resize", "writeText", "nextImage"}

C15_Witness ==
  /\ phase = "ready"
  /\ lastOp = "nextImage"
  /\ RunCalls = MaxRun
  /\ made.w = 3 /\ made.h = 5
  /\ ~synced
  /\ error = NoError

\* C16: only construction and resize() change the buffer size, the display
\* size, the cached scale factor and the context's transform: nextImage() and
\* writeText() leave all of them as they were.
C16_OnlyResizeConfigures ==
  [][ /\ lastOp' \in {"nextImage", "writeText"} =>
           (canvas' = canvas /\ dpr' = dpr /\ ctx' = ctx)
      /\ (canvas' # canvas \/ dpr' # dpr \/ ctx' # ctx) =>
           lastOp' \in {"initCanvas", "resize"} ]_vars

C16_Witness ==
  /\ lastOp = "writeText"
  /\ hintText = "hola"
  /\ made.w = 3 /\ made.h = 5
  /\ canvas = [width |-> 800, height |-> 600, styleWidth |-> 400,
               styleHeight |-> 300]
  /\ dpr = I(2)
  /\ UniformScale(ctx, I(2))
  /\ devicePixelRatio = DprNumber(5, 4)

\* C17: the scene (illustration and overlay text) is changed only by
\* nextImage() and writeText() after construction has set it: resize() leaves
\* both as they were and its redraw shows them, so a resize() after
\* writeText(x) still shows x over the same illustration.
C17_OnlyNextAndWriteChangeScene ==
  [][ /\ lastOp' = "resize" =>
           /\ Scene' = Scene
           /\ made'.image = currentImage
           /\ made'.text = hintText
      /\ Scene' # Scene => lastOp' \in {"initCanvas", "nextImage", "writeText"}
      /\ (Scene' # Scene /\ lastOp' = "initCanvas") => phase = "loading" ]_vars

C17_Witness ==
  /\ lastOp = "resize"
  /\ arg = JsString("hola")
  /\ before = [image |-> 2, text |-> "hola"]
  /\ Scene = [image |-> 2, text |-> "hola"]
  /\ \E i \in 1 .. Len(Calls) : Calls[i].op = "fillText" /\ Calls[i].text = "hola"
  /\ Illustrations = {"orange"}

\* the eleven calls p draw the rounded rectangle with the corners (x, y) and
\* (xw, yh) and the radius r: from (x + r, y), an edge to the start of each
\* corner and a curve about that corner, back to (x + r, y), and closePath
IsRoundedRectPath(p, x, y, xw, yh, r) ==
  /\ [ i \in 1 .. 11 |-> p[i].op ] =
       << "beginPath", "moveTo", "lineTo", "quadraticCurveTo", "lineTo",
          "quadraticCurveTo", "lineTo", "quadraticCurveTo", "lineTo",
          "quadraticCurveTo", "closePath" >>
  /\ p[2].args = << RAdd(x, r), y >>
  /\ p[3].args = << RSub(xw, r), y >>
  /\ p[4].args = << xw, y, xw, RAdd(y, r) >>
  /\ p[5].args = << xw, RSub(yh, r) >>
  /\ p[6].args = << xw, yh, RSub(xw, r), yh >>
  /\ p[7].args = << RAdd(x, r), yh >>
  /\ p[8].args = << x, yh, x, RSub(yh, r) >>
  /\ p[9].args = << x, RAdd(y, r) >>
  /\ p[10].args = << x, y, RAdd(x, r), y >>
  /\ << p[10].args[3], p[10].args[4] >> = p[2].args

\* C18: every path of the rounded-rectangle primitive, from the background
\* panel and from the banana's tip alike, starts at (x + radius, y), is four
\* straight edges alternating with four quadratic curves whose control points
\* are the four corners of the rectangle, and is back at its start before
\* closePath; the panel's rectangle is the whole layout with radius 12.
C18_RoundRectPath ==
  phase = "ready" =>
    LET calls == Calls
        ends  == { i \in 11 .. Len(calls) :
                     /\ calls[i].op = "closePath"
                     /\ calls[i - 1].op = "quadraticCurveTo"
                     /\ calls[i - 2].op = "lineTo" }
    IN /\ Cardinality(ends) = (IF currentImage = 1 THEN 2 ELSE 1)
       /\ \A i \in ends :
            LET p == SubSeq(calls, i - 10, i)
            IN IsRoundedRectPath(p, p[10].args[1], p[10].args[2],
                                 p[6].args[1], p[6].args[2],
                                 RSub(p[2].args[1], p[10].args[1]))
       /\ \E i \in ends :
            IsRoundedRectPath(SubSeq(calls, i - 10, i), I(0), I(0),
                              I(made.w), I(made.h), I(12))

C18_Witness ==
  /\ phase = "ready"
  /\ currentImage = 1
  /\ made.w = 173 /\ made.h = 600
  /\ Cardinality({ i \in 11 .. Len(Calls) :
                     /\ Calls[i].op = "closePath"
                     /\ Calls[i - 1].op = "quadraticCurveTo"
                     /\ Calls[i - 2].op = "lineTo" }) = 2

\* the host calls a call makes before its redraw
BeforeRedraw(m) ==
  CASE m.op = "initCanvas" -> contextSetup \o configureCalls(m.cv, m.scale)
    [] m.op = "resize" -> configureCalls(m.cv, m.scale)
    [] OTHER -> <<>>

\* the call clear, made on the context c after the calls pre, is the
\* clearRect that covers the buffer of the canvas cv exactly: from the
\* origin, under a scale with no shift, the buffer's size over the scale
ClearCovers(pre, clear, c, cv) ==
  LET at == Run(c, pre).cur
  IN /\ at.b = I(0) /\ at.c = I(0) /\ at.e = I(0) /\ at.f = I(0)
     /\ at.local = <<>>
     /\ at.a.n > 0 /\ at.d.n > 0
     /\ clear = Call("clearRect",
                     << I(0), I(0), RDiv(I(cv.width), at.a),
                        RDiv(I(cv.height), at.d) >>)

\* C19: the clearRect of every redraw, under the transform in force when it is
\* called, covers the buffer exactly: it starts at the origin, the transform
\* is a scale with no shift, and its width and height times the scale are the
\* buffer's width and height; also in a redraw of nextImage() or writeText()
\* made after the host changed its device pixel ratio or layout size with no
\* resize() since.
C19_ClearCoversBuffer ==
  [][ (phase' = "ready" /\ host' = host) =>
        ClearCovers(BeforeRedraw(made'),
                    CallsOf(made')[Len(BeforeRedraw(made')) + 1],
                    ctx, canvas') ]_vars

C19_Witness ==
  /\ lastOp = "nextImage"
  /\ ~synced
  /\ dpr = R(3, 2)
  /\ devicePixelRatio = DprNumber(2, 1)
  /\ canvas.width = 260 /\ canvas.styleWidth = 173
  /\ made.w = 3
  /\ Calls[1] = Call("clearRect", << I(0), I(0), R(520, 3), I(600) >>)

\* the characters v have no whitespace at either end
NoOuterWhitespace(v) ==
  v = <<>> \/ (v[1] \notin Whitespace /\ v[Len(v)] \notin Whitespace)

\* v is the value with whitespace, and only whitespace, cut off its two ends
IsTrimOf(v, value) ==
  /\ NoOuterWhitespace(v)
  /\ \E lo \in 0 .. Len(value) : \E hi \in lo .. Len(value) :
       /\ v = SubSeq(value, lo + 1, hi)
       /\ \A k \in 1 .. lo : value[k] \in Whitespace
       /\ \A k \in hi + 1 .. Len(value) : value[k] \in Whitespace

\* C20: on the page, after any clicks on Write and Next the overlay text has
\* no whitespace at either end: a click on Write sets it to the trimmed value
\* of the text field (for a value of whitespace alone there is no overlay
\* text and none is drawn), and a click on Next leaves the overlay text and
\* the text field empty.
C20_ClicksKeepOverlayTrimmed ==
  [][ /\ phase' = "ready" =>
           \E v \in InputValues : Str(v) = hintText' /\ NoOuterWhitespace(v)
      /\ (lastOp' = "writeText" /\ textInput' = textInput) =>
           /\ \E v \in InputValues :
                Str(v) = hintText' /\ IsTrimOf(v, textInput)
           /\ (\A k \in 1 .. Len(textInput) : textInput[k] \in Whitespace) =>
                (hintText' = "" /\ "fillText" \notin OpsOf(CallsOf(made')))
      /\ (lastOp' = "nextImage" /\ currentImage' # currentImage) =>
           (hintText' = "" /\ textInput' = <<>>) ]_vars

C20_Witness ==
  /\ lastOp = "writeText"
  /\ textInput = << " ", "a", " " >>
  /\ arg = JsString("a")
  /\ hintText = "a"
  /\ HasCall("fillText")

\* C21: every call of the rounded-rectangle primitive (the panel with radius
\* 12, the banana's tip with radius 3) has a radius of at most half the width
\* and at most half the height of its rectangle, at every layout size.
C21_RadiusFitsRectangle ==
  phase = "ready" =>
    LET calls == Calls
        ends  == { i \in 11 .. Len(calls) :
                     /\ calls[i].op = "closePath"
                     /\ calls[i - 1].op = "quadraticCurveTo"
                     /\ calls[i - 2].op = "lineTo" }
    IN \A i \in ends :
         LET p      == SubSeq(calls, i - 10, i)
             radius == RSub(p[2].args[1], p[10].args[1])
             width  == RSub(p[6].args[1], p[10].args[1])
             height == RSub(p[6].args[2], p[10].args[2])
         IN /\ RSub(width, RAdd(radius, radius)).n >= 0
            /\ RSub(height, RAdd(radius, radius)).n >= 0

\* the save and restore calls of a sequence pair up: no restore without a
\* save before it, and no save left open at the end
RECURSIVE OpenSaves(_, _)
OpenSaves(ops, depth) ==
  IF ops = <<>> THEN depth
  ELSE IF Head(ops) = "save" THEN OpenSaves(Tail(ops), depth + 1)
  ELSE IF depth = 0 THEN -1
  ELSE OpenSaves(Tail(ops), depth - 1)

IsSaveOrRestore(cmd) == cmd.op \in {"save", "restore"}

\* C22: in every redraw, whatever the illustration, the save and restore
\* calls are balanced: afterwards the save stack is as deep as before (empty)
\* and the transform is the uniform scale of the last resize, and the overlay
\* text is drawn under that scale alone, inside its own save, with no
\* translate or rotate of an illustration in force.
C22_SaveRestoreBalanced ==
  phase = "ready" =>
    LET calls  == Calls
        pairs  == SelectSeq(calls, IsSaveOrRestore)
        clears == PositionsOfOps(calls, {"clearRect"})
        texts  == PositionsOfOps(calls, {"fillText"})
    IN /\ OpenSaves([ i \in 1 .. Len(pairs) |-> pairs[i].op ], 0) = 0
       /\ ctx.stack = <<>>
       /\ UniformScale(ctx, dpr)
       /\ \A c \in clears : \A t \in texts :
            LET at == Run(ctx, SubSeq(calls, c, t - 1))
            IN /\ UniformScale(at, dpr)
               /\ Len(at.stack) = 1

C22_Witness ==
  /\ lastOp = "writeText"
  /\ currentImage = 1
  /\ hintText = "hola"
  /\ dpr = R(3, 2)
  /\ HasCall("rotate")
  /\ HasCall("fillText")
  /\ ctx.stack = <<>>

\* C23: every stroke of a redraw (the apple's stem, the banana's highlight,
\* the orange's texture lines) is drawn with the line cap and the line join
\* 'round' that construction set on the context.
C23_StrokesAreRound ==
  phase = "ready" =>
    LET calls   == Calls
        strokes == PositionsOfOps(calls, {"stroke"})
    IN \A k \in strokes :
         LET at == Run(ctx, SubSeq(calls, 1, k - 1)).cur
         IN at.lineCap = "round" /\ at.lineJoin = "round"

\* C24: the load handler calls initApp, initSpeech, initVideo in that order,
\* a later one only after the earlier ones returned normally; with the canvas
\* element absent initCanvas throws its "Canvas element not found" error, no
\* listener of any part is registered and no video source is loaded, and this
\* stays so whatever the user does afterwards.
C24_LoadStopsAtMissingCanvas ==
  /\ loadLog \in { <<>>, << "initApp" >>,
                   << "initApp", "initSpeech", "initVideo" >> }
  /\ Len(loadLog) > 1 => phase = "ready"
  /\ loadLog # <<>> /\ CanvasMissing(surface) =>
       /\ error = CanvasNotFound
       /\ loadLog = << "initApp" >>
       /\ listeners = {}
       /\ videoSrc = ""

C24_Witness ==
  /\ loadLog = << "initApp" >>
  /\ CanvasMissing(surface)
  /\ phase = "failed"

\* the video the page has selected
SelectedVideo == videoItems[currentVideoIndex + 1]

\* C25: once the video part is set up, after any clicks on Check and Next the
\* index is one of 0, 1, 2 and equals the number of Next clicks modulo 3, the
\* loaded source is the one of the selected video, and a result message, when
\* there is one, quotes the answer of the selected video.
C25_VideoStateConsistent ==
  "video" \in listeners =>
    /\ currentVideoIndex \in 0 .. 2
    /\ currentVideoIndex = nextClicks % 3
    /\ videoSrc = SelectedVideo.video
    /\ resultDiv.text.kind # "none" =>
         resultDiv.text.correct = SelectedVideo.answer

C25_Witness ==
  /\ nextClicks = 4
  /\ currentVideoIndex = 1
  /\ videoSrc = "media/beber.mp4"
  /\ resultDiv.text.kind = "incorrect"

\* a and b are the same letter, whatever their case
SameLetter(a, b) ==
  \/ a = b
  \/ << a, b >> \in { << "B", "b" >>, << "C", "c" >>, << "D", "d" >>,
                      << "E", "e" >>, << "I", "i" >>, << "M", "m" >>,
                      << "O", "o" >>, << "R", "r" >> }

\* lower is value with its whitespace ends cut off and its letters lowered
IsNormalizedOf(lower, value) ==
  /\ \A k \in 1 .. Len(lower) : lower[k] \notin DOMAIN UpperCase
  /\ \E core \in { SubSeq(value, lo, hi) :
                     lo \in 1 .. Len(value) + 1, hi \in 0 .. Len(value) } :
       /\ IsTrimOf(core, value)
       /\ Len(core) = Len(lower)
       /\ \A k \in 1 .. Len(core) : SameLetter(core[k], lower[k])

\* C26: a click on Check marks the result 'result correct' exactly when the
\* answer field, whitespace ends cut off and letters lowered, is the answer of
\* the selected video; any other value, the empty one included, is marked
\* 'result incorrect' with a message that shows the normalized value of the
\* field and the correct answer.
C26_CheckMarksExactMatch ==
  [][ resultDiv' # resultDiv /\ nextClicks' = nextClicks =>
        LET answer == SelectedVideo.answer
            matches == IsNormalizedOf(answer, answerInput)
        IN /\ resultDiv'.className \in {"result correct", "result incorrect"}
           /\ resultDiv'.className = "result correct" <=> matches
           /\ resultDiv'.text.kind = "correct" <=> matches
           /\ resultDiv'.text.correct = answer
           /\ ~matches =>
                /\ resultDiv'.text.kind = "incorrect"
                /\ IsNormalizedOf(resultDiv'.text.user, answerInput) ]_vars

C26_Witness ==
  /\ resultDiv.className = "result correct"
  /\ answerInput = << " ", "B", "e", "b", "e", "r" >>
  /\ currentVideoIndex = 1

\* C27: once every pending media event has been delivered, the Play/Pause
\* button reads 'Pause' exactly when the video is not paused, after any clicks
\* on Play/Pause, Stop and Next and any 'play', 'pause' and 'ended' events,
\* a click whose play() request does not start playback included.
C27_PlayLabelSynced ==
  "video" \in listeners /\ mediaEvents = <<>> =>
    (playLabel = "Pause" <=> ~paused)

\* C28: when onend of a recognition session is delivered the status stops
\* reading 'Listening... Speak now!': a session that ends while the status
\* still reads so (no result, no error, no Next-word click in it) shows 'Did
\* not hear anything. Try again.', and onend leaves alone the error status
\* set by onerror and a status emptied by onresult or by a Next-word click
\* made while listening.
C28_OnEndReplacesOnlyListening ==
  [][ session # "idle" /\ session' = "idle" =>
        /\ status'.text # Listening
        /\ session = "started" /\ ~cleared => status'.text = DidNotHear
        /\ session = "failed" /\ ~cleared => status'.text = ErrorStatus
        /\ session = "heard" => status'.text = ""
        /\ status.text \in {ErrorStatus, ""} => status' = status ]_vars

C28_Witness ==
  /\ session = "idle"
  /\ status.text = DidNotHear
  /\ ~cleared

\* C29: in the copy with the Analyze button, every click on it hands the
\* trimmed video answer to handleVideoAnalysis and then leaves the video
\* answer field empty, and it changes nothing of the canvas scene.
C29_AnalyzeClickSubmitsAndClears ==
  [][ analysis'.clicks = analysis.clicks + 1 =>
        /\ analysis'.calls = Append(analysis.calls, Trim(answerInput))
        /\ answerInput' = <<>>
        /\ Scene' = Scene
        /\ made' = made ]_vars

\* the number a sequence of digit characters writes
RECURSIVE NumberOf(_)
NumberOf(digits) ==
  IF digits = <<>>
  THEN 0
  ELSE 10 * NumberOf(SubSeq(digits, 1, Len(digits) - 1))
         + (CHOOSE k \in 0 .. 9 : DigitChars[k + 1] = digits[Len(digits)])

AllDigits(chars) ==
  \A k \in 1 .. Len(chars) : \E n \in 1 .. 10 : chars[k] = DigitChars[n]

\* text is M:SS for s seconds: M the minutes without padding, SS the seconds
\* of the minute in two digits
IsMinutesSeconds(text, s) ==
  LET n == Len(text)
  IN /\ n >= 4
     /\ text[n - 2] = ":"
     /\ LET m == SubSeq(text, 1, n - 3)
            ss == SubSeq(text, n - 1, n)
        IN /\ AllDigits(m)
           /\ AllDigits(ss)
           /\ Len(m) = 1 \/ m[1] # "0"
           /\ NumberOf(m) = s \div 60
           /\ NumberOf(ss) = s % 60
           /\ NumberOf(m) * 60 + NumberOf(ss) = s

====
